---- MODULE Spec2Model ----
(***************************************************************************)
(* Model of GenericWaterHeater                                             *)
(* (custom_components/generic_water_heater/water_heater.py): a hysteresis  *)
(* controller that switches a heater entity on and off from a temperature  *)
(* sensor entity.  Every handler of the entity is one action; the host's   *)
(* state machine entries of the sensor and of the heater switch, and the   *)
(* restored last state, are the environment.                               *)
(***************************************************************************)
EXTENDS Integers, Sequences, FiniteSets, TLC

\* ------------------------------------------------------------------ bounds
\* temperatures (readings, targets) range over 0..MaxTemp
MaxTemp == 4
\* the configured temperature delta ranges over 1..MaxDelta
MaxDelta == 1
\* configured min/max temperatures range over 0..MaxCfgTemp
MaxCfgTemp == 2

\* --------------------------------------------------------- host constants
STATE_ON == "on"
STATE_OFF == "off"
STATE_UNAVAILABLE == "unavailable"
STATE_UNKNOWN == "unknown"
TEMP_FAHRENHEIT == "F"
TEMP_CELSIUS == "C"
DEFAULT_MIN_TEMP == 110
DEFAULT_MAX_TEMP == 140

\* Python's None for an optional number; a present number v is <<v>>
None == <<>>
Some(v) == <<v>>
\* hass.states.get(entity_id) returning None (no such entity)
NoState == "<no state>"

Temps == 0 .. MaxTemp
Deltas == 1 .. MaxDelta
Units == {TEMP_FAHRENHEIT, TEMP_CELSIUS}

\* state strings of the sensor entity: a number written out, or a marker
SensorStates == {ToString(n) : n \in Temps} \cup {STATE_UNAVAILABLE, STATE_UNKNOWN}
\* state strings of the heater switch entity
HeaterStates == {STATE_ON, STATE_OFF, STATE_UNAVAILABLE, STATE_UNKNOWN}

\* float(s) of a state string: the number whose decimal text is s
Float(s) == CHOOSE n \in Temps : ToString(n) = s

Abs(x) == IF x < 0 THEN -x ELSE x

\* The last state handed back by async_get_last_state(): none, or the state
\* string the entity last published (its operation, or "unavailable" when
\* the entity was not available) with its temperature attribute.
NoOldState == [exists |-> FALSE, state |-> STATE_ON, temperature |-> None]

OldStates == {NoOldState}
             \cup [exists : {TRUE},
                   state : {STATE_ON, STATE_OFF, STATE_UNAVAILABLE},
                   temperature : {None} \cup {Some(t) : t \in Temps}]

VARIABLES
    hass_sensor,          \* hass.states.get(sensor_entity_id): state string or NoState
    hass_heater,          \* hass.states.get(heater_entity_id): state string or NoState
    last_state,           \* what async_get_last_state() will return when the entity is added
    target_temperature,   \* self._target_temperature
    temperature_delta,    \* self._temperature_delta
    min_temp,             \* self._min_temp
    max_temp,             \* self._max_temp
    unit_of_measurement,  \* self._unit_of_measurement
    current_operation,    \* self._current_operation
    current_temperature,  \* self._current_temperature
    attr_available,       \* self._attr_available
    added,                \* async_added_to_hass has run (handlers are subscribed)
    lastOp,               \* the handler that ran last
    invoked,              \* the command routine the last handler called
    sent,                 \* number of service calls the last handler made
    raised,               \* the last handler ended in an exception
    last_cmd,             \* the most recent command routine call and its service calls
    changed,              \* a heater state change was reported since last_cmd
    prev_cmd,             \* the command routine call before last_cmd
    between,              \* a heater state change was reported between the two
    published,            \* the display state of the last async_write_ha_state()
    cycle,                \* progress of one regulation cycle (see RegulationCycle)
    off_since_on,         \* a turn-off service call was made since the heater last reported on
    suspended,            \* handlers waiting in their awaited service call
    config_min,           \* min_temp as passed to __init__
    config_max,           \* max_temp as passed to __init__
    returned              \* value returned by the last min_temp/max_temp access

vars == <<hass_sensor, hass_heater, last_state, target_temperature,
          temperature_delta, min_temp, max_temp, unit_of_measurement,
          current_operation, current_temperature, attr_available, added,
          lastOp, invoked, sent, raised, last_cmd, changed,
          prev_cmd, between, published, cycle, off_since_on, suspended,
          config_min, config_max, returned>>

ctrlVars == <<hass_sensor, hass_heater, last_state, target_temperature,
              temperature_delta, current_operation, current_temperature,
              attr_available, added, invoked, sent, raised, last_cmd, changed,
              prev_cmd, between, published, cycle, off_since_on, suspended>>

\* the history kept of the command routine calls
histVars == <<last_cmd, changed, prev_cmd, between, cycle, off_since_on>>

\* nothing written yet
NoDisplay == [written |-> FALSE, temperature |-> None, target |-> None,
              operation |-> STATE_ON, available |-> FALSE]

NoCmd == [cmd |-> "none", sent |-> 0]

\* ------------------------------------------------------------ construction
\* __init__: fields from the arguments, operation ON, no temperature, not
\* available.
Constructed(target_temp, temp_delta, mn, mx, unit) ==
    /\ target_temperature = target_temp
    /\ temperature_delta = temp_delta
    /\ min_temp = mn
    /\ max_temp = mx
    /\ config_min = mn
    /\ config_max = mx
    /\ unit_of_measurement = unit
    /\ current_operation = STATE_ON
    /\ current_temperature = None
    /\ attr_available = FALSE
    /\ added = FALSE
    /\ lastOp = "init"
    /\ invoked = "none"
    /\ sent = 0
    /\ raised = FALSE
    /\ last_cmd = NoCmd
    /\ changed = FALSE
    /\ prev_cmd = NoCmd
    /\ between = FALSE
    /\ published = NoDisplay
    /\ cycle = "idle"
    /\ off_since_on = FALSE
    /\ suspended = <<>>
    /\ returned = None

Init ==
    /\ hass_sensor \in SensorStates \cup {NoState}
    /\ hass_heater \in HeaterStates \cup {NoState}
    /\ last_state \in OldStates
    /\ \E t \in {None} \cup {Some(v) : v \in Temps}, d \in Deltas :
          Constructed(t, d, None, None, TEMP_FAHRENHEIT)

\* -------------------------------------------------------- command routines
\* _async_heater_turn_on: returns early when the heater has no state or is
\* already on, otherwise makes one service call.
TurnOnCallsUnchecked(heater) ==
    IF heater = NoState THEN 0 ELSE 1

TurnOnCalls(heater) ==
    IF heater = NoState \/ heater = STATE_ON THEN 0 ELSE 1

TurnOffCallsAvailableOnly(heater) ==
    IF heater = STATE_ON THEN 1 ELSE 0

\* _async_heater_turn_off: returns early when the heater has no state or is
\* already off, otherwise makes one service call.
TurnOffCalls(heater) ==
    IF heater = NoState \/ heater = STATE_OFF THEN 0 ELSE 1

Calls(cmd, heater) ==
    CASE cmd = "turn_on" -> TurnOnCalls(heater)
      [] cmd = "turn_off" -> TurnOffCalls(heater)
      [] OTHER -> 0

\* ------------------------------------------------------- control decision
OutsideBandInclusive(cur, target, delta) == Abs(cur - target) >= delta

\* the dead-band test of _async_control_heating
OutsideBand(cur, target, delta) == Abs(cur - target) > delta

\* which side of the band: on when colder than the target
BandCommand(cur, target) == IF cur < target THEN "turn_on" ELSE "turn_off"

ControlHeatingBandFirst(cur, operation, target, delta) ==
    IF cur = None THEN "pass"
    ELSE IF target = None THEN "TypeError"
    ELSE IF OutsideBand(cur[1], target[1], delta) THEN BandCommand(cur[1], target[1])
    ELSE IF operation = STATE_OFF THEN "turn_off"
    ELSE "pass"

ControlHeatingOffFirst(cur, operation, target, delta) ==
    IF operation = STATE_OFF THEN "turn_off"
    ELSE IF cur = None THEN "pass"
    ELSE IF target = None THEN "TypeError"
    ELSE IF OutsideBand(cur[1], target[1], delta) THEN BandCommand(cur[1], target[1])
    ELSE "pass"

\* _async_control_heating up to its command: "pass", the command routine it
\* awaits, or "TypeError" (float minus None).
ControlHeating(cur, operation, target, delta) ==
    IF cur = None THEN "pass"
    ELSE IF operation = STATE_OFF THEN "turn_off"
    ELSE IF target = None THEN "TypeError"
    ELSE IF OutsideBand(cur[1], target[1], delta) THEN BandCommand(cur[1], target[1])
    ELSE "pass"

\* bookkeeping of what a handler did: the routine called (cmd is "pass" or
\* "TypeError" when none was), the service calls made against the heater
\* state of that moment.
Outcome(op, cmd, heater) ==
    LET called == cmd \in {"turn_on", "turn_off"}
        n == Calls(cmd, heater)
    IN /\ lastOp' = op
       /\ invoked' = IF called THEN cmd ELSE "none"
       /\ sent' = n
       /\ raised' = (cmd = "TypeError")
       /\ last_cmd' = IF called THEN [cmd |-> cmd, sent |-> n] ELSE last_cmd
       /\ changed' = IF called THEN FALSE ELSE changed
       /\ prev_cmd' = IF called THEN last_cmd ELSE prev_cmd
       /\ between' = IF called THEN changed ELSE between
       /\ off_since_on' = IF cmd = "turn_off" /\ n = 1 THEN TRUE ELSE off_since_on
       /\ suspended' = suspended

\* async_write_ha_state(): the display state is what the fields hold now
WriteHaState ==
    published' = [written |-> TRUE,
                  temperature |-> current_temperature',
                  target |-> target_temperature',
                  operation |-> current_operation',
                  available |-> attr_available']

WrittenOnCommandOnly(cmd) ==
    IF cmd \in {"turn_on", "turn_off"} THEN WriteHaState ELSE UNCHANGED published

\* the last line of _async_control_heating: reached on every branch, not
\* reached when the comparison raised
Written(cmd) ==
    IF cmd = "TypeError" THEN UNCHANGED published ELSE WriteHaState

accVars == <<min_temp, max_temp, unit_of_measurement, config_min, config_max, returned>>

\* ----------------------------------------------------------------- handlers
SetTemperatureSwitchingOn(value) ==
    /\ added
    /\ target_temperature' = value
    /\ current_operation' = STATE_ON
    /\ Outcome("set_temperature",
               ControlHeating(current_temperature, STATE_ON, value, temperature_delta),
               hass_heater)
    /\ cycle' = "idle"
    /\ UNCHANGED <<hass_sensor, hass_heater, last_state, temperature_delta,
                   current_temperature, attr_available, added>>
    /\ UNCHANGED accVars
    /\ Written(ControlHeating(current_temperature, STATE_ON, value, temperature_delta))

\* async_set_temperature
SetTemperature(value) ==
    /\ added
    /\ target_temperature' = value
    /\ Outcome("set_temperature",
               ControlHeating(current_temperature, current_operation, value,
                              temperature_delta),
               hass_heater)
    /\ cycle' = "idle"
    /\ UNCHANGED <<hass_sensor, hass_heater, last_state, temperature_delta,
                   current_operation, current_temperature, attr_available, added>>
    /\ UNCHANGED accVars
    /\ Written(ControlHeating(current_temperature, current_operation, value,
                              temperature_delta))

\* async_set_operation_mode
SetOperationMode(operation_mode) ==
    /\ added
    /\ current_operation' = operation_mode
    /\ Outcome("set_operation_mode",
               ControlHeating(current_temperature, operation_mode,
                              target_temperature, temperature_delta),
               hass_heater)
    /\ cycle' = "idle"
    /\ UNCHANGED <<hass_sensor, hass_heater, last_state, temperature_delta,
                   target_temperature, current_temperature, attr_available, added>>
    /\ UNCHANGED accVars
    /\ Written(ControlHeating(current_temperature, operation_mode,
                              target_temperature, temperature_delta))

\* a state object that exists and is neither unavailable nor unknown
IsValidState(state) ==
    state # NoState /\ state \notin {STATE_UNAVAILABLE, STATE_UNKNOWN}

RestoredTargetIgnored(old_state, target) == target

\* async_added_to_hass: the target restored from the last state's
\* temperature attribute when it has one
RestoredTarget(old_state, target) ==
    IF old_state.exists /\ old_state.temperature # None
    THEN Some(old_state.temperature[1])
    ELSE target

\* async_added_to_hass: the operation restored from the last state's state
RestoredOperation(old_state, operation) ==
    IF old_state.exists THEN old_state.state ELSE operation

\* async_added_to_hass: the temperature primed from the live sensor state
PrimedTemperature(temp_sensor, cur) ==
    IF IsValidState(temp_sensor) THEN Some(Float(temp_sensor)) ELSE cur

\* async_added_to_hass: availability primed from the live heater state
PrimedAvailable(heater_switch, available) ==
    IF IsValidState(heater_switch) THEN TRUE ELSE available

\* async_added_to_hass: subscribes the two handlers, restores, primes and
\* writes the state; it calls no command routine.  The last state is read
\* here and nowhere else, so it is dropped once read.
AddedToHass ==
    /\ ~added
    /\ added' = TRUE
    /\ target_temperature' = RestoredTarget(last_state, target_temperature)
    /\ current_operation' = RestoredOperation(last_state, current_operation)
    /\ current_temperature' = PrimedTemperature(hass_sensor, current_temperature)
    /\ attr_available' = PrimedAvailable(hass_heater, attr_available)
    /\ last_state' = NoOldState
    /\ Outcome("added_to_hass", "pass", hass_heater)
    /\ cycle' = "idle"
    /\ UNCHANGED <<hass_sensor, hass_heater, temperature_delta>>
    /\ UNCHANGED accVars
    /\ WriteHaState

\* _async_sensor_changed, the temperature it leaves behind
SensorTemperature(new_state) ==
    IF IsValidState(new_state) THEN Some(Float(new_state)) ELSE None

SensorCommandNoFailsafe(new_state, operation, target, delta) ==
    ControlHeating(SensorTemperature(new_state), operation, target, delta)

\* _async_sensor_changed, the command routine it ends up calling: the
\* failsafe's turn-off (the control step then passes on the unset
\* temperature), or the control step's command on the new temperature.
SensorCommand(new_state, operation, target, delta) ==
    IF IsValidState(new_state)
    THEN ControlHeating(SensorTemperature(new_state), operation, target, delta)
    ELSE "turn_off"

\* One regulation cycle, followed from the handlers: "off_sent" once a valid
\* reading above the band made the control step, in operation on, send
\* turn-off; "off_reported" once the heater's next report was off; later
\* valid readings keep it there; anything else ends it ("idle").
RegulationCycle(new_state, operation, cmd, calls) ==
    IF IsValidState(new_state) /\ operation = STATE_ON /\ cmd = "turn_off" /\ calls = 1
    THEN "off_sent"
    ELSE IF IsValidState(new_state) /\ cycle = "off_reported" THEN "off_reported"
    ELSE "idle"

\* _async_sensor_changed: the host has set the sensor's state to new_state
\* (NoState: the entity was removed) and fires the event.
SensorChanged(new_state) ==
    /\ added
    /\ hass_sensor' = new_state
    /\ current_temperature' = SensorTemperature(new_state)
    /\ Outcome("sensor_changed",
               SensorCommand(new_state, current_operation, target_temperature,
                             temperature_delta),
               hass_heater)
    /\ cycle' = RegulationCycle(new_state, current_operation,
                                SensorCommand(new_state, current_operation,
                                              target_temperature, temperature_delta),
                                sent')
    /\ UNCHANGED <<hass_heater, last_state, temperature_delta, target_temperature,
                   current_operation, attr_available, added>>
    /\ UNCHANGED accVars
    /\ Written(SensorCommand(new_state, current_operation, target_temperature,
                             temperature_delta))

\* _async_switch_changed, the operation after a valid heater state
SwitchedOperation(state, operation) ==
    IF state = STATE_ON /\ operation = STATE_OFF THEN STATE_ON
    ELSE IF state = STATE_OFF /\ operation = STATE_ON THEN STATE_OFF
    ELSE operation

SwitchedAvailableUnlessGone(new_state) == new_state # NoState

\* _async_switch_changed, the availability after the reported state
SwitchedAvailable(new_state) == IsValidState(new_state)

\* _async_switch_changed: the host has set the heater's state to new_state
\* and fires the event; no control step, no command.
SwitchChanged(new_state) ==
    /\ added
    /\ hass_heater' = new_state
    /\ attr_available' = SwitchedAvailable(new_state)
    /\ current_operation' = IF IsValidState(new_state)
                            THEN SwitchedOperation(new_state, current_operation)
                            ELSE current_operation
    /\ lastOp' = "switch_changed"
    /\ invoked' = "none"
    /\ sent' = 0
    /\ raised' = FALSE
    /\ changed' = TRUE
    /\ cycle' = IF cycle = "off_sent" /\ new_state = STATE_OFF
                THEN "off_reported" ELSE "idle"
    /\ off_since_on' = IF new_state = STATE_ON THEN FALSE ELSE off_since_on
    /\ UNCHANGED <<hass_sensor, last_state, temperature_delta, target_temperature,
                   current_temperature, added, last_cmd, prev_cmd, between,
                   suspended>>
    /\ UNCHANGED accVars
    /\ WriteHaState

\* ------------------------------------------------------ min_temp / max_temp
\* Python truth value of an optional number: None and 0 are false
Truthy(x) == x # None /\ x[1] # 0

\* convert(value, TEMP_FAHRENHEIT, unit), to whole degrees
Convert(value, from_unit, to_unit) ==
    IF to_unit = from_unit THEN value ELSE ((value - 32) * 5) \div 9

\* the field after the property's "if not self._..._temp" defaulting
Defaulted(field, default, unit) ==
    IF ~Truthy(field) THEN Some(Convert(default, TEMP_FAHRENHEIT, unit)) ELSE field

\* property min_temp
MinTempGet ==
    /\ min_temp' = Defaulted(min_temp, DEFAULT_MIN_TEMP, unit_of_measurement)
    /\ returned' = min_temp'
    /\ lastOp' = "min_temp"
    /\ UNCHANGED <<max_temp, unit_of_measurement, config_min, config_max>>
    /\ UNCHANGED ctrlVars

\* property max_temp
MaxTempGet ==
    /\ max_temp' = Defaulted(max_temp, DEFAULT_MAX_TEMP, unit_of_measurement)
    /\ returned' = max_temp'
    /\ lastOp' = "max_temp"
    /\ UNCHANGED <<min_temp, unit_of_measurement, config_min, config_max>>
    /\ UNCHANGED ctrlVars

\* ------------------------------------------------------------ specifications
Next ==
    \/ AddedToHass
    \/ \E value \in Temps : SetTemperature(Some(value))
    \/ \E operation_mode \in {STATE_ON, STATE_OFF} : SetOperationMode(operation_mode)
    \/ \E new_state \in SensorStates \cup {NoState} : SensorChanged(new_state)
    \/ \E new_state \in HeaterStates \cup {NoState} : SwitchChanged(new_state)

Spec == Init /\ [][Next]_vars

\* ------------------------------------------------- handlers with suspension
\* The coroutines give up control only in the awaited service call of a
\* command routine (hass.services.async_call); until the call returns, other
\* handlers run on the fields as the suspended one left them.  A handler
\* that makes no service call runs through as in the actions above.

\* at most MaxSuspended handlers wait in their service call at a time
MaxSuspended == 2
\* with suspension, temperatures (readings, targets) range over 0..MaxAsyncTemp
MaxAsyncTemp == 2

AsyncTemps == 0 .. MaxAsyncTemp
AsyncSensorStates ==
    {ToString(n) : n \in AsyncTemps} \cup {STATE_UNAVAILABLE, STATE_UNKNOWN}

\* a handler waiting in its service call: whether it is the failsafe branch
\* of _async_sensor_changed (which still has to unset the temperature and
\* run the control step), and the service calls it has made.  The calls
\* return in any order, so the waiting handlers are kept failsafe first.
Task(failsafe, calls) == [failsafe |-> failsafe, calls |-> calls]

\* what a handler does on reaching its command: with no service call it
\* runs on to async_write_ha_state(), with one it is suspended there.
Await(op, cmd, failsafe) ==
    LET n == Calls(cmd, hass_heater)
    IN /\ lastOp' = op
       /\ invoked' = IF cmd \in {"turn_on", "turn_off"} THEN cmd ELSE "none"
       /\ sent' = n
       /\ raised' = (cmd = "TypeError")
       /\ IF n = 0
          THEN /\ suspended' = suspended
               /\ Written(cmd)
          ELSE /\ Len(suspended) < MaxSuspended
               /\ suspended' = IF failsafe
                               THEN <<Task(failsafe, n)>> \o suspended
                               ELSE Append(suspended, Task(failsafe, n))
               /\ UNCHANGED published

\* async_set_temperature, up to its service call
SetTemperatureAwait(value) ==
    /\ added
    /\ target_temperature' = value
    /\ UNCHANGED <<hass_sensor, hass_heater, last_state, temperature_delta,
                   current_operation, current_temperature, attr_available, added>>
    /\ UNCHANGED histVars
    /\ UNCHANGED accVars
    /\ Await("set_temperature",
             ControlHeating(current_temperature, current_operation, value,
                            temperature_delta),
             FALSE)

\* async_set_operation_mode, up to its service call
SetOperationModeAwait(operation_mode) ==
    /\ added
    /\ current_operation' = operation_mode
    /\ UNCHANGED <<hass_sensor, hass_heater, last_state, temperature_delta,
                   target_temperature, current_temperature, attr_available, added>>
    /\ UNCHANGED histVars
    /\ UNCHANGED accVars
    /\ Await("set_operation_mode",
             ControlHeating(current_temperature, operation_mode,
                            target_temperature, temperature_delta),
             FALSE)

\* _async_sensor_changed, up to its service call: a valid state sets the
\* temperature before the control step; the failsafe branch awaits
\* turn-off first, so the temperature is unset here only when turn-off
\* returned without a service call.
SensorChangedAwait(new_state) ==
    LET failsafe == ~IsValidState(new_state)
        waits == failsafe /\ TurnOffCalls(hass_heater) = 1
    IN /\ added
       /\ hass_sensor' = new_state
       /\ current_temperature' = IF waits THEN current_temperature
                                 ELSE SensorTemperature(new_state)
       /\ UNCHANGED <<hass_heater, last_state, temperature_delta, target_temperature,
                      current_operation, attr_available, added>>
       /\ UNCHANGED histVars
       /\ UNCHANGED accVars
       /\ Await("sensor_changed",
                SensorCommand(new_state, current_operation, target_temperature,
                              temperature_delta),
                failsafe)

FailsafeTemperatureKept(cur) == cur

\* _async_sensor_changed, line 192: the temperature after the failsafe's
\* turn-off has returned
FailsafeTemperature(cur) == None

\* the command of the control step a resumed handler still has to run: the
\* failsafe branch runs it on the temperature it has just unset, the others
\* were suspended inside it
ResumedCommand(task, cur, operation, target, delta) ==
    IF task.failsafe
    THEN ControlHeating(FailsafeTemperature(cur), operation, target, delta)
    ELSE "pass"

\* the service call of the i-th suspended handler returns: the handler runs
\* to its end.
Resume(i) ==
    LET task == suspended[i]
        cmd == ResumedCommand(task, current_temperature, current_operation,
                              target_temperature, temperature_delta)
    IN /\ i \in 1 .. Len(suspended)
       /\ suspended' = SubSeq(suspended, 1, i - 1) \o SubSeq(suspended, i + 1, Len(suspended))
       /\ current_temperature' = IF task.failsafe
                                 THEN FailsafeTemperature(current_temperature)
                                 ELSE current_temperature
       /\ lastOp' = "resumed"
       /\ invoked' = IF cmd \in {"turn_on", "turn_off"} THEN cmd ELSE "none"
       /\ sent' = task.calls + Calls(cmd, hass_heater)
       /\ raised' = (cmd = "TypeError")
       /\ UNCHANGED <<hass_sensor, hass_heater, last_state, temperature_delta,
                      target_temperature, current_operation, attr_available, added>>
       /\ UNCHANGED histVars
       /\ UNCHANGED accVars
       /\ Written(cmd)

\* _async_switch_changed is a plain callback: it is never suspended
SwitchChangedCallback(new_state) ==
    /\ added
    /\ hass_heater' = new_state
    /\ attr_available' = SwitchedAvailable(new_state)
    /\ current_operation' = IF IsValidState(new_state)
                            THEN SwitchedOperation(new_state, current_operation)
                            ELSE current_operation
    /\ lastOp' = "switch_changed"
    /\ invoked' = "none"
    /\ sent' = 0
    /\ raised' = FALSE
    /\ UNCHANGED <<hass_sensor, last_state, temperature_delta, target_temperature,
                   current_temperature, added, suspended>>
    /\ UNCHANGED histVars
    /\ UNCHANGED accVars
    /\ WriteHaState

NextAsync ==
    \/ AddedToHass
    \/ \E value \in AsyncTemps : SetTemperatureAwait(Some(value))
    \/ \E operation_mode \in {STATE_ON, STATE_OFF} : SetOperationModeAwait(operation_mode)
    \/ \E new_state \in AsyncSensorStates \cup {NoState} : SensorChangedAwait(new_state)
    \/ \E new_state \in HeaterStates \cup {NoState} : SwitchChangedCallback(new_state)
    \/ \E i \in 1 .. MaxSuspended : Resume(i)

\* the entity is set up afresh: nothing to restore
InitAsync ==
    /\ hass_sensor \in AsyncSensorStates \cup {NoState}
    /\ hass_heater \in HeaterStates \cup {NoState}
    /\ last_state = NoOldState
    /\ \E t \in {None} \cup {Some(v) : v \in AsyncTemps}, d \in Deltas :
          Constructed(t, d, None, None, TEMP_FAHRENHEIT)

SpecAsync == InitAsync /\ [][NextAsync]_vars

\* the accessors on their own: every configured min/max and unit
CfgTemps == {None} \cup {Some(v) : v \in 0 .. MaxCfgTemp}

InitTemp ==
    /\ hass_sensor = NoState
    /\ hass_heater = NoState
    /\ last_state = NoOldState
    /\ \E mn \in CfgTemps, mx \in CfgTemps, unit \in Units :
          Constructed(None, 1, mn, mx, unit)

NextTemp == MinTempGet \/ MaxTempGet

SpecTemp == InitTemp /\ [][NextTemp]_vars

\* ------------------------------------------------------------------ claims
\* the handlers that end in the control step
Reevaluated == lastOp \in {"set_temperature", "set_operation_mode", "sensor_changed"}

\* C1: with operation on and both temperatures present, the control step of
\* set_temperature, set_operation_mode or a valid sensor change calls turn-on
\* iff target - current > delta, turn-off iff current - target > delta, and
\* nothing (no service call) iff |current - target| <= delta.
C1_Hysteresis ==
    (/\ Reevaluated
     /\ current_operation = STATE_ON
     /\ current_temperature # None
     /\ target_temperature # None)
    => LET c == current_temperature[1]
           t == target_temperature[1]
           d == temperature_delta
       IN /\ ~raised
          /\ (invoked = "turn_on") <=> (t - c > d)
          /\ (invoked = "turn_off") <=> (c - t > d)
          /\ (invoked = "none") <=> (c - t <= d /\ t - c <= d)
          /\ (c - t <= d /\ t - c <= d) => sent = 0

\* C1 witness: a reading exactly delta below the target left the heater alone
C1_Witness ==
    /\ lastOp = "sensor_changed"
    /\ current_operation = STATE_ON
    /\ current_temperature # None
    /\ target_temperature # None
    /\ target_temperature[1] - current_temperature[1] = temperature_delta
    /\ hass_heater = STATE_OFF
    /\ invoked = "none"
    /\ sent = 0

\* C2 as stated: in operation off every re-evaluation calls turn-off, whatever
\* the temperatures, an unset current temperature included.
C2_Original ==
    (Reevaluated /\ current_operation = STATE_OFF) => invoked = "turn_off"

\* C2 amended: in operation off with a current temperature, every
\* re-evaluation calls turn-off whatever the temperatures (a missing target
\* included); without a current temperature set_temperature and
\* set_operation_mode call nothing.
C2_ModeOff ==
    /\ (Reevaluated /\ current_operation = STATE_OFF /\ current_temperature # None)
       => (invoked = "turn_off" /\ ~raised)
    /\ (/\ lastOp \in {"set_temperature", "set_operation_mode"}
        /\ current_operation = STATE_OFF
        /\ current_temperature = None)
       => (invoked = "none" /\ ~raised)

\* C2 witness: operation off, reading below the band, turn-off was sent
C2_Witness ==
    /\ lastOp = "sensor_changed"
    /\ current_operation = STATE_OFF
    /\ current_temperature # None
    /\ target_temperature # None
    /\ target_temperature[1] - current_temperature[1] > temperature_delta
    /\ invoked = "turn_off"
    /\ sent = 1

\* the last handler was the failsafe branch of the sensor handler
Failsafe == lastOp = "sensor_changed" /\ ~IsValidState(hass_sensor)

\* C3 as stated: an unavailable/unknown sensor state always has a turn-off
\* service call made and the current temperature unset, whatever the heater
\* reports.
C3_Original ==
    Failsafe => (sent = 1 /\ invoked = "turn_off" /\ current_temperature = None)

\* C3 amended: an unavailable/unknown sensor state always calls the turn-off
\* routine and unsets the current temperature; the service call is made
\* exactly when the heater has a state other than off.
C3_Failsafe ==
    Failsafe =>
        /\ invoked = "turn_off"
        /\ current_temperature = None
        /\ ~raised
        /\ (sent = 1) <=> (hass_heater \notin {NoState, STATE_OFF})

\* C3 witness: the failsafe ran in operation off with an unavailable heater
C3_Witness ==
    /\ Failsafe
    /\ hass_sensor = STATE_UNKNOWN
    /\ current_operation = STATE_OFF
    /\ hass_heater = STATE_UNAVAILABLE
    /\ sent = 1

\* the last two command routine calls were the same routine with no heater
\* state change reported between them
SameCommandTwice ==
    /\ last_cmd.cmd # "none"
    /\ prev_cmd.cmd = last_cmd.cmd
    /\ ~between

\* C4 as stated: of two such calls exactly one makes a service call and the
\* second makes none.
C4_Original ==
    SameCommandTwice => (prev_cmd.sent + last_cmd.sent = 1 /\ last_cmd.sent = 0)

\* the heater state a command routine asks for
Desired(cmd) == IF cmd = "turn_on" THEN STATE_ON ELSE STATE_OFF

\* C4 amended: two such calls make the same number of service calls, and a
\* call makes none exactly when the heater's state is already the desired one
\* or the heater has no state.
C4_Idempotence ==
    /\ SameCommandTwice => last_cmd.sent = prev_cmd.sent
    /\ (last_cmd.cmd # "none" /\ ~changed)
       => ((last_cmd.sent = 0) <=> (hass_heater \in {NoState, Desired(last_cmd.cmd)}))

\* C4 witness: turn-on called twice while the heater kept reporting off
C4_Witness ==
    /\ SameCommandTwice
    /\ last_cmd.cmd = "turn_on"
    /\ ~changed
    /\ hass_heater = STATE_OFF
    /\ last_cmd.sent = 1
    /\ prev_cmd.sent = 1

\* C5: after a heater state change to on or off the operation equals the
\* reported state; after one to unavailable/unknown (or to no state) the
\* operation is what it was.
C5_Resync ==
    [][lastOp' = "switch_changed"
       => IF hass_heater' \in {STATE_ON, STATE_OFF}
          THEN current_operation' = hass_heater'
          ELSE current_operation' = current_operation]_vars

\* C6: while the current temperature is unset, set_operation_mode and
\* set_temperature call no command routine and make no service call.
C6_NoDecisionWhileUnset ==
    (lastOp \in {"set_temperature", "set_operation_mode"} /\ current_temperature = None)
    => (invoked = "none" /\ sent = 0 /\ ~raised)

\* C6 witness: after a failsafe turn-off (the only command call that can be
\* the last one while the temperature is unset) the operation was set to off
\* with the heater reporting on, and nothing was sent
C6_Witness ==
    /\ lastOp = "set_operation_mode"
    /\ current_temperature = None
    /\ hass_sensor = STATE_UNAVAILABLE
    /\ last_cmd.cmd = "turn_off"
    /\ current_operation = STATE_OFF
    /\ hass_heater = STATE_ON
    /\ sent = 0

\* C7: adding the entity makes no service call; afterwards the target is the
\* last state's temperature when it has one and the constructed target
\* otherwise, the operation is the last state's state when there is a last
\* state and on otherwise, the current temperature is the live sensor reading
\* when that is valid and unset otherwise, and the entity is available iff
\* the live heater state is on or off.
C7_Attach ==
    [][lastOp' = "added_to_hass"
       => /\ sent' = 0
          /\ invoked' = "none"
          /\ ~raised'
          /\ target_temperature' =
                IF last_state.exists /\ last_state.temperature # None
                THEN last_state.temperature
                ELSE target_temperature
          /\ current_operation' = IF last_state.exists THEN last_state.state ELSE STATE_ON
          /\ IF hass_sensor \in {NoState, STATE_UNAVAILABLE, STATE_UNKNOWN}
             THEN current_temperature' = None
             ELSE /\ current_temperature' # None
                  /\ ToString(current_temperature'[1]) = hass_sensor
          /\ attr_available' = (hass_heater \in {STATE_ON, STATE_OFF})]_vars

\* C7 witness: added with a restored operation off and target, a live
\* reading above it and the heater reporting on, and nothing was sent
C7_Witness ==
    /\ lastOp = "added_to_hass"
    /\ current_operation = STATE_OFF
    /\ target_temperature = Some(0)
    /\ current_temperature = Some(MaxTemp)
    /\ hass_heater = STATE_ON
    /\ attr_available
    /\ sent = 0

\* C8: no handler ends in an exception.
C8_NoException == ~raised

\* C9: the operation is always on or off.
C9_ModeEnum == current_operation \in {STATE_ON, STATE_OFF}

\* C10: min_temp/max_temp return the configured value whenever one was
\* configured (0 included), otherwise the converted default, which is then
\* the cached field.
C10_MinMax ==
    /\ lastOp = "min_temp" =>
          /\ returned = min_temp
          /\ returned = IF config_min # None THEN config_min
                        ELSE Some(Convert(DEFAULT_MIN_TEMP, TEMP_FAHRENHEIT, unit_of_measurement))
    /\ lastOp = "max_temp" =>
          /\ returned = max_temp
          /\ returned = IF config_max # None THEN config_max
                        ELSE Some(Convert(DEFAULT_MAX_TEMP, TEMP_FAHRENHEIT, unit_of_measurement))

\* C11 as stated: a command routine makes its service call exactly when the
\* heater's reported state differs from the desired one, a heater without a
\* reported state included.
C11_Original ==
    invoked # "none" => ((sent = 1) <=> (hass_heater # Desired(invoked)))

\* C11 amended: a command routine makes its service call exactly when the
\* heater has a reported state and it differs from the desired one: it does
\* when the heater reports unavailable/unknown, whatever the availability
\* flag, and it does not when the heater has no state.
C11_NotSuppressed ==
    invoked # "none" =>
        /\ (sent = 1) <=> (hass_heater # NoState /\ hass_heater # Desired(invoked))
        /\ hass_heater \in {STATE_UNAVAILABLE, STATE_UNKNOWN} => sent = 1
        /\ hass_heater = NoState => sent = 0

\* C11 witness: turn-off was sent to a heater reporting unknown while the
\* entity was flagged unavailable
C11_Witness ==
    /\ invoked = "turn_off"
    /\ hass_heater = STATE_UNKNOWN
    /\ ~attr_available
    /\ sent = 1

\* C12: once the entity is added, the current temperature is unset when the
\* sensor's latest state is unavailable/unknown (or gone) and is that state's
\* number otherwise, also while handlers are suspended.
C12_NeverStale ==
    added => current_temperature = SensorTemperature(hass_sensor)

\* C13: once the controller, in operation on, has sent turn-off for a reading
\* above the band and the heater has reported off in response, with no user
\* command since, a valid reading below the band has turn-on sent and the
\* operation is still on.
C13_Cycling ==
    [][(/\ cycle = "off_reported"
        /\ lastOp' = "sensor_changed"
        /\ IsValidState(hass_sensor')
        /\ target_temperature # None
        /\ target_temperature[1] - Float(hass_sensor') > temperature_delta)
       => (/\ current_operation' = STATE_ON
           /\ invoked' = "turn_on"
           /\ sent' = 1)]_vars

C15_NoOnAfterFailsafe ==
    (invoked = "turn_on" /\ sent = 1 /\ lastOp # "resumed") => IsValidState(hass_sensor)

\* C16: a heater state change makes no service call and calls no command
\* routine, leaves target, current temperature and delta alone, and leaves
\* the entity available iff the reported state is on or off.
C16_StateSync ==
    [][lastOp' = "switch_changed"
       => /\ sent' = 0
          /\ invoked' = "none"
          /\ ~raised'
          /\ UNCHANGED <<target_temperature, current_temperature, temperature_delta>>
          /\ attr_available' = (hass_heater' \in {STATE_ON, STATE_OFF})]_vars

\* C16 witness: the heater reported on in operation on with a reading above
\* the band, and nothing was sent
C16_Witness ==
    /\ lastOp = "switch_changed"
    /\ hass_heater = STATE_ON
    /\ current_operation = STATE_ON
    /\ current_temperature # None
    /\ target_temperature # None
    /\ current_temperature[1] - target_temperature[1] > temperature_delta
    /\ attr_available
    /\ sent = 0

\* C17: a handler makes at most one service call from its start to its end,
\* suspended or not; a resumed handler makes none.
C17_NoRetry ==
    /\ sent <= 1
    /\ \A i \in 1 .. Len(suspended) : suspended[i].calls <= 1
    /\ lastOp = "resumed" => invoked = "none"

\* C17 witness: the failsafe's turn-off returned while the heater still
\* reported on in operation off, and the handler ended without a second call
C17_Witness ==
    /\ lastOp = "resumed"
    /\ sent = 1
    /\ current_temperature = None
    /\ ~IsValidState(hass_sensor)
    /\ current_operation = STATE_OFF
    /\ hass_heater = STATE_ON

\* what async_write_ha_state() would write now
Display ==
    [written |-> TRUE,
     temperature |-> current_temperature,
     target |-> target_temperature,
     operation |-> current_operation,
     available |-> attr_available]

\* C18: every handler that completes has written the state as its last step:
\* what was published is what the fields hold at its end, on every branch of
\* the control step.
C18_PublishedLast ==
    (lastOp \in {"set_temperature", "set_operation_mode", "sensor_changed",
                 "switch_changed", "added_to_hass"} /\ ~raised)
    => published = Display

\* C18 witness: set_temperature with an unset current temperature (the
\* control step passed) published the new target
C18_Witness ==
    /\ lastOp = "set_temperature"
    /\ current_temperature = None
    /\ invoked = "none"
    /\ published.written
    /\ published.target = target_temperature
    /\ published.target # None

\* C19: the sensor handler and set_temperature leave operation and
\* availability alone, the sensor handler leaves the target alone,
\* set_operation_mode leaves target and current temperature alone, and the
\* delta never changes.
C19_Frame ==
    [][/\ lastOp' \in {"sensor_changed", "set_temperature"}
          => UNCHANGED <<current_operation, attr_available>>
       /\ lastOp' = "sensor_changed" => UNCHANGED target_temperature
       /\ lastOp' = "set_operation_mode"
          => UNCHANGED <<target_temperature, current_temperature>>
       /\ UNCHANGED temperature_delta]_vars

\* C19 witness: set_temperature ran in operation off on an unavailable entity
C19_Witness ==
    /\ lastOp = "set_temperature"
    /\ current_operation = STATE_OFF
    /\ ~attr_available
    /\ current_temperature # None
    /\ invoked = "turn_off"

====
